---------------------------- MODULE Spec2Model ----------------------------
(***************************************************************************)
(* Chronos instrumentation agent: the two storage controllers             *)
(* (controllers/mongo.js, the document store, and the PostgreSQL          *)
(* controller, the relational store), the tracing middleware, service     *)
(* registration and the container poller, as one state machine.           *)
(*                                                                         *)
(* JavaScript runs every callback to completion on one event loop, so     *)
(* each action below is one callback (or one synchronous call of the      *)
(* chronos API); what is asynchronous in the code (a query sent to the    *)
(* store, a promise of systeminformation, a timer) is state between       *)
(* actions.                                                                *)
(***************************************************************************)
EXTENDS Integers, Sequences, FiniteSets, TLC

\* ------------------------------------------------------------------ bounds
MaxReq == 2          \* requests that pass through the middleware
MaxRegs == 2         \* calls of chronos.services / chronos.kafka
MaxContainers == 2   \* length of the list si.dockerContainers() resolves to
MaxTicks == 2        \* timer ticks of the container poller
MaxInputs == 2       \* inputs fed to both backends side by side
MaxPolls == 2        \* timer ticks of the health and queue-metrics pollers
MaxLate == 1         \* requests whose correlation header is changed under way

\* ------------------------------------------------------- program constants
AlertStatus == 400      \* if (res.statusCode >= 400)
EndpointWidth == 248    \* endpoint varchar(248) NOT NULL
RequestWidth == 16      \* request varchar(16) NOT NULL
MessageWidth == 500     \* responsemessage varchar(500) NOT NULL
CorrelatingIdWidth == 500   \* correlatingId varchar(500)
MsPerSecond == 1000     \* element.time / 1000
ExampleInterval == 2000 \* interval: 2000 of the example configuration

Backends == {"mongo", "pg"}

\* ------------------------------------------------------------ input domains
RECURSIVE Repeat(_, _)
Repeat(s, n) == IF n = 0 THEN "" ELSE s \o Repeat(s, n - 1)

\* a request URL of 259 characters, longer than the relational column allows
LongUrl == "/q?" \o Repeat("0123456789abcdef", 16)

Microservice == "customers"
Undefined == "undefined"

Intervals == {1000, 2000}
ServiceNames == {Microservice, "kafkametrics"}

\* an inbound request: method, originalUrl, and the x-correlation-id response
\* header an earlier middleware has set (or not)
ReqInputs ==
    { <<"GET", "/customers", Undefined>>,
      <<"POST", "/orders", "cid-1">>,
      <<"GET", LongUrl, "cid-2">> }
Statuses == {200, 400, 500}

\* res.statusMessage once the response has ended: node sets it to
\* http.STATUS_CODES[res.statusCode] || 'unknown' (the registered status codes).
StatusMessage(code) ==
    CASE code = 100 -> "Continue"
      [] code = 101 -> "Switching Protocols"
      [] code = 102 -> "Processing"
      [] code = 103 -> "Early Hints"
      [] code = 200 -> "OK"
      [] code = 201 -> "Created"
      [] code = 202 -> "Accepted"
      [] code = 203 -> "Non-Authoritative Information"
      [] code = 204 -> "No Content"
      [] code = 205 -> "Reset Content"
      [] code = 206 -> "Partial Content"
      [] code = 207 -> "Multi-Status"
      [] code = 208 -> "Already Reported"
      [] code = 226 -> "IM Used"
      [] code = 300 -> "Multiple Choices"
      [] code = 301 -> "Moved Permanently"
      [] code = 302 -> "Found"
      [] code = 303 -> "See Other"
      [] code = 304 -> "Not Modified"
      [] code = 305 -> "Use Proxy"
      [] code = 307 -> "Temporary Redirect"
      [] code = 308 -> "Permanent Redirect"
      [] code = 400 -> "Bad Request"
      [] code = 401 -> "Unauthorized"
      [] code = 402 -> "Payment Required"
      [] code = 403 -> "Forbidden"
      [] code = 404 -> "Not Found"
      [] code = 405 -> "Method Not Allowed"
      [] code = 406 -> "Not Acceptable"
      [] code = 407 -> "Proxy Authentication Required"
      [] code = 408 -> "Request Timeout"
      [] code = 409 -> "Conflict"
      [] code = 410 -> "Gone"
      [] code = 411 -> "Length Required"
      [] code = 412 -> "Precondition Failed"
      [] code = 413 -> "Payload Too Large"
      [] code = 414 -> "URI Too Long"
      [] code = 415 -> "Unsupported Media Type"
      [] code = 416 -> "Range Not Satisfiable"
      [] code = 417 -> "Expectation Failed"
      [] code = 418 -> "I'm a Teapot"
      [] code = 421 -> "Misdirected Request"
      [] code = 422 -> "Unprocessable Entity"
      [] code = 423 -> "Locked"
      [] code = 424 -> "Failed Dependency"
      [] code = 425 -> "Too Early"
      [] code = 426 -> "Upgrade Required"
      [] code = 428 -> "Precondition Required"
      [] code = 429 -> "Too Many Requests"
      [] code = 431 -> "Request Header Fields Too Large"
      [] code = 451 -> "Unavailable For Legal Reasons"
      [] code = 500 -> "Internal Server Error"
      [] code = 501 -> "Not Implemented"
      [] code = 502 -> "Bad Gateway"
      [] code = 503 -> "Service Unavailable"
      [] code = 504 -> "Gateway Timeout"
      [] code = 505 -> "HTTP Version Not Supported"
      [] code = 506 -> "Variant Also Negotiates"
      [] code = 507 -> "Insufficient Storage"
      [] code = 508 -> "Loop Detected"
      [] code = 509 -> "Bandwidth Limit Exceeded"
      [] code = 510 -> "Not Extended"
      [] code = 511 -> "Network Authentication Required"
      [] OTHER -> "unknown"

VARIABLES
    backend,     \* which controller the agent loaded: "mongo" or "pg"
    connState,   \* "none" before chronos.connect, "connecting" until the driver
                 \* answers, then "up" or "down"
    alive,       \* FALSE once an uncaught exception has ended the host process
    logs,        \* the error messages console.log has printed (by kind)
    slack,       \* a slack configuration was passed to chronos.communications
    email,       \* an email configuration was passed to chronos.communications
    db,          \* the store: its tables/collections and their rows
    pending,     \* queries/saves handed to the driver and not yet answered
    clock,       \* the store's and the host's wall clock (a logical time)
    mw,          \* chronos.communications has returned the middleware
    http,        \* per request: the req and res objects the framework owns
    newComms,    \* per request: what the middleware's closure captured
    trace,       \* per request: the calls made for it, in program order
    alerts,      \* the alert.sendSlack / alert.sendEmail calls made
    regs,        \* calls of service registration, in order, and how each ended
    timers,      \* repeating timers registered by chronos.health / chronos.kafka
    dk,          \* chronos.docker's closure: resolution and the shared vars
    ticks,       \* per tick of the container poller: where its work stands
    polls,       \* per tick of the health / queue-metrics pollers: where its work stands
    twin         \* both backends fed the same inputs (backend equivalence)

envVars == <<backend, connState, alive, logs, slack, email>>
dbVars == <<db, pending, clock>>
reqVars == <<mw, http, newComms, trace, alerts>>
regVars == <<regs, timers>>
dkVars == <<dk, ticks>>
vars == <<envVars, dbVars, reqVars, regVars, dkVars, polls, twin>>

\* ------------------------------------------------------------ the stores
\* An empty database: no table has been created, no row stored.
EmptyDb ==
    [ tables |-> {},
      services |-> <<>>,
      communications |-> <<>>,
      health |-> <<>>,
      containerinfo |-> <<>>,
      kafkametrics |-> <<>> ]

Rows(d, table) ==
    CASE table = "services" -> d.services
      [] table = "communications" -> d.communications
      [] table = "health" -> d.health
      [] table = "containerinfo" -> d.containerinfo
      [] table = "kafkametrics" -> d.kafkametrics

WithRows(d, table, rows) ==
    CASE table = "services" -> [d EXCEPT !.services = rows]
      [] table = "communications" -> [d EXCEPT !.communications = rows]
      [] table = "health" -> [d EXCEPT !.health = rows]
      [] table = "containerinfo" -> [d EXCEPT !.containerinfo = rows]
      [] table = "kafkametrics" -> [d EXCEPT !.kafkametrics = rows]

HasService(d, name) == \E i \in 1..Len(d.services) : d.services[i].microservice = name

\* What the relational driver sends for a JavaScript undefined parameter.
Null == "null"

\* ---- relational store (PostgreSQL): the statements the controller issues

\* CREATE TABLE IF NOT EXISTS <table> (...)
PgCreateTable(d, table) ==
    [ db |-> [d EXCEPT !.tables = @ \cup {table}], outcome |-> "ok" ]

\* INSERT INTO services (microservice, interval) VALUES ($1, $2)
\*   ON CONFLICT (microservice) DO NOTHING;   microservice is UNIQUE
PgInsertService(d, values) ==
    IF "services" \notin d.tables
    THEN [ db |-> d, outcome |-> "rejected" ]
    ELSE IF HasService(d, values[1])
    THEN [ db |-> d, outcome |-> "ok" ]
    ELSE [ db |-> [d EXCEPT !.services =
                     Append(@, [microservice |-> values[1], interval |-> values[2]])],
           outcome |-> "ok" ]

PgParam(v) == IF v = Undefined THEN Null ELSE v

\* INSERT INTO communications (microservice, endpoint, request, responsestatus,
\*   responsemessage, correlatingId) VALUES ($1..$6); time DEFAULT CURRENT_TIMESTAMP.
\*   microservice, endpoint, request and responsemessage are NOT NULL (an undefined
\*   parameter is bound as NULL) and every character column has a width;
\*   responsestatus is always the number res.statusCode.
PgInsertCommunication(d, values, now) ==
    IF \/ "communications" \notin d.tables
       \/ PgParam(values[1]) = Null
       \/ PgParam(values[2]) = Null
       \/ PgParam(values[3]) = Null
       \/ PgParam(values[5]) = Null
       \/ Len(values[1]) > EndpointWidth
       \/ Len(values[2]) > EndpointWidth
       \/ Len(values[3]) > RequestWidth
       \/ Len(values[5]) > MessageWidth
       \/ (PgParam(values[6]) # Null /\ Len(values[6]) > CorrelatingIdWidth)
    THEN [ db |-> d, outcome |-> "rejected" ]
    ELSE [ db |-> [d EXCEPT !.communications =
                     Append(@, [ microservice |-> values[1],
                                 endpoint |-> values[2],
                                 request |-> values[3],
                                 responsestatus |-> values[4],
                                 responsemessage |-> values[5],
                                 time |-> now * 1000,
                                 correlatingid |-> PgParam(values[6]) ])],
           outcome |-> "ok" ]

\* INSERT INTO containerInfo(microservice, containerName, ... 13 columns)
\*   VALUES ($1..$13); the table has no time column
PgInsertContainerInfo(d, values) ==
    IF "containerinfo" \notin d.tables
    THEN [ db |-> d, outcome |-> "rejected" ]
    ELSE [ db |-> [d EXCEPT !.containerinfo =
                     Append(@, [ microservice |-> values[1],
                                 containername |-> values[2],
                                 containerid |-> values[3],
                                 containerplatform |-> values[4],
                                 containerstarttime |-> values[5],
                                 containermemusage |-> values[6],
                                 containermemlimit |-> values[7],
                                 containermempercent |-> values[8],
                                 containercpupercent |-> values[9],
                                 networkreceived |-> values[10],
                                 networksent |-> values[11],
                                 containerprocesscount |-> values[12],
                                 containerrestartcount |-> values[13] ])],
           outcome |-> "ok" ]

createQueryStringSameRow(numRows) ==
    [ i \in 1..numRows |-> << 1, 2, 3, 4 >> ]

\* createQueryString(numRows, serviceName): row i is
\*   ($4i+1, $4i+2, $4i+3, TO_TIMESTAMP($4i+4)), i from 0; the row tuples are kept
\*   as the placeholder numbers they name
createQueryString(numRows) ==
    [ i \in 1..numRows |->
        << 4 * (i - 1) + 1, 4 * (i - 1) + 2, 4 * (i - 1) + 3, 4 * (i - 1) + 4 >> ]

\* element.time / 1000: milliseconds to (fractional) seconds
Seconds(ms) == [ whole |-> ms \div MsPerSecond, milli |-> ms % MsPerSecond ]

\* createQueryArray(dataPointsArray): metric, value, category, time / 1000 per element
RECURSIVE createQueryArray(_)
createQueryArray(dataPointsArray) ==
    IF dataPointsArray = <<>> THEN <<>>
    ELSE << Head(dataPointsArray).metric,
            Head(dataPointsArray).value,
            Head(dataPointsArray).category,
            Seconds(Head(dataPointsArray).time) >>
         \o createQueryArray(Tail(dataPointsArray))

\* TO_TIMESTAMP(seconds): a timestamp, in microseconds
ToTimestamp(sec) == sec.whole * 1000000 + sec.milli * 1000

\* INSERT INTO <table> (metric, value, category, time) VALUES <row tuples>;
\*   a statement with no row tuple is a syntax error; a placeholder beyond the
\*   parameters given is a bind error
PgInsertBatch(d, table, query, params) ==
    IF \/ table \notin d.tables
       \/ Len(query) = 0
       \/ \E i \in 1..Len(query) : \E j \in 1..4 : query[i][j] > Len(params)
    THEN [ db |-> d, outcome |-> "rejected" ]
    ELSE [ db |-> WithRows(d, table, Rows(d, table) \o
                    [ i \in 1..Len(query) |->
                        [ metric |-> params[query[i][1]],
                          value |-> params[query[i][2]],
                          category |-> params[query[i][3]],
                          time |-> ToTimestamp(params[query[i][4]]) ] ]),
           outcome |-> "ok" ]

\* ---- document store (MongoDB through mongoose)

\* new ServicesModel({microservice, interval}).save(); the services schema
\*   declares microservice unique, so a second save is a duplicate-key error
MongoSaveService(d, doc) ==
    IF HasService(d, doc.microservice)
    THEN [ db |-> d, outcome |-> "duplicate" ]
    ELSE [ db |-> [d EXCEPT !.services = Append(@, doc)], outcome |-> "ok" ]

\* new Model(doc).save() for a communication or a container document; the schema
\*   adds time (default Date.now)
MongoSave(d, table, doc) ==
    [ db |-> WithRows(d, table, Append(Rows(d, table), doc)), outcome |-> "ok" ]

\* Model.insertMany(docs): an empty array is a successful no-op
MongoInsertMany(d, table, docs) ==
    [ db |-> WithRows(d, table, Rows(d, table) \o docs), outcome |-> "ok" ]

\* The store executes one statement/save that reached it.
Exec(b, d, w, now) ==
    CASE w.op = "create" -> PgCreateTable(d, w.table)
      [] w.op = "insertService" -> PgInsertService(d, w.values)
      [] w.op = "insertCommunication" -> PgInsertCommunication(d, w.values, now)
      [] w.op = "insertContainer" -> PgInsertContainerInfo(d, w.values)
      [] w.op = "insertBatch" -> PgInsertBatch(d, w.table, w.query, w.params)
      [] w.op = "saveService" -> MongoSaveService(d, w.doc)
      [] w.op = "save" -> MongoSave(d, w.table, w.doc)
      [] w.op = "insertMany" -> MongoInsertMany(d, w.table, w.docs)

\* ------------------------------------------------------------ the driver
Call(c, a) == [ call |-> c, arg |-> a ]

RemoveAt(q, i) == SubSeq(q, 1, i - 1) \o SubSeq(q, i + 1, Len(q))

\* Who issued a query: a request, a tick of the container poller, a registration,
\* a tick of the health or queue-metrics poller ("poll").
Tag(kind, id) == [ kind |-> kind, id |-> id ]
NoTag == Tag("setup", 0)

\* The statements among calls, in order, as the driver receives them: a "write"
\* carries the tag of the request, tick or registration that issued it, a "setup"
\* statement (CREATE TABLE IF NOT EXISTS) carries none.
RECURSIVE WritesOf(_, _)
WritesOf(calls, tag) ==
    IF calls = <<>> THEN <<>>
    ELSE (IF Head(calls).call = "write"
          THEN << [ w |-> Head(calls).arg, tag |-> tag ] >>
          ELSE IF Head(calls).call = "setup"
          THEN << [ w |-> Head(calls).arg, tag |-> NoTag ] >>
          ELSE <<>>)
         \o WritesOf(Tail(calls), tag)

CountCalls(calls, c) == Cardinality({ i \in 1..Len(calls) : calls[i].call = c })

\* An error reaches a node-postgres callback that rethrows it, outside any try:
\* an uncaught exception, which ends the process. A promise's .catch(console.log)
\* only logs.
Rethrows(w) == w.cb = "throw"

\* chronos.docker's variables before it is called: var containername, platform, ...
\* are declared and undefined; no timer is registered.
NewDocker ==
    [ phase |-> "none",
      data |-> <<>>,
      id |-> [ containerid |-> "", containername |-> Undefined,
               platform |-> Undefined, starttime |-> Undefined ],
      stats |-> Undefined,
      timer |-> FALSE,
      error |-> FALSE ]

\* chronos.connect({ database }) is called: it hands the connection request to the
\* driver and returns a pending promise; the caller goes on and may call the
\* components while the driver has not answered.
Connect ==
    /\ alive
    /\ connState = "none"
    /\ connState' = "connecting"
    /\ UNCHANGED <<polls, backend, alive, logs, slack, email, dbVars, reqVars, regVars, dkVars, twin>>

\* The awaited driver connect resolves or rejects; a rejection is caught and logged.
ConnectThen ==
    /\ alive
    /\ connState = "connecting"
    /\ \E ok \in BOOLEAN :
         /\ connState' = (IF ok THEN "up" ELSE "down")
         /\ logs' = (IF ok THEN logs
                     ELSE logs \cup { [ kind |-> "logged", op |-> "connect",
                                        table |-> "", cause |-> "transport" ] })
    /\ UNCHANGED <<polls, backend, alive, slack, email, dbVars, reqVars, regVars, dkVars, twin>>

\* What the process prints: an error a .catch logged, or the uncaught exception that
\* ended it; cause is "transport" when the statement never reached the store.
LogEntry(kind, w, cause) == [ kind |-> kind, op |-> w.op, table |-> w.table, cause |-> cause ]

\* How a registration's insert/save ended.
RegOutcome(before, answer) ==
    IF answer.outcome = "ok"
    THEN (IF answer.db = before THEN "no-op" ELSE "inserted")
    ELSE answer.outcome

\* The store answers one query/save. node-postgres sends the queries of its one
\* client in order; mongoose's pool may answer in any order. delivered = FALSE is a
\* failure before the store executed the statement. While the connection is not
\* settled node-postgres keeps the queries in its queue; mongoose buffers the
\* operations and fails one whose buffering times out.
DbComplete ==
    /\ pending # <<>>
    /\ \E i \in 1..Len(pending), delivered \in BOOLEAN :
         /\ backend = "pg" => i = 1 /\ connState # "connecting"
         /\ connState # "up" => ~delivered
         /\ LET p == pending[i]
                r == IF delivered THEN Exec(backend, db, p.w, clock)
                     ELSE [ db |-> db, outcome |-> "transport" ]
                failed == r.outcome # "ok"
                thrown == alive /\ failed /\ Rethrows(p.w)
            IN  /\ db' = r.db
                /\ alive' = (alive /\ ~thrown)
                /\ pending' = (IF thrown THEN <<>> ELSE RemoveAt(pending, i))
                /\ logs' = (IF alive /\ failed
                            THEN logs \cup { LogEntry(IF thrown THEN "uncaught" ELSE "logged",
                                                      p.w, r.outcome) }
                            ELSE logs)
                /\ ticks' = (IF p.tag.kind = "tick"
                             THEN [ticks EXCEPT ![p.tag.id].phase =
                                      IF failed THEN "write failed" ELSE "stored"]
                             ELSE ticks)
                /\ regs' = (IF p.tag.kind = "registration"
                            THEN [regs EXCEPT ![p.tag.id].state = RegOutcome(db, r)]
                            ELSE regs)
                /\ polls' = (IF p.tag.kind = "poll"
                             THEN [polls EXCEPT ![p.tag.id].phase =
                                      IF failed THEN "write failed" ELSE "stored"]
                             ELSE polls)
    /\ UNCHANGED <<backend, connState, slack, email, clock, reqVars, dk, timers, twin>>

\* ------------------------------------------------------ chronos.communications

\* chronos.communications({ microservice, slack, email }): the relational controller
\* first issues CREATE TABLE IF NOT EXISTS communications; both return the middleware.
CommunicationsSetup(b) ==
    IF b = "pg"
    THEN << Call("setup", [ op |-> "create", table |-> "communications", cb |-> "throw" ]) >>
    ELSE <<>>

Communications ==
    /\ alive
    /\ connState # "none"
    /\ ~mw
    /\ mw' = TRUE
    /\ pending' = pending \o WritesOf(CommunicationsSetup(backend), NoTag)
    /\ UNCHANGED <<polls, envVars, db, clock, http, newComms, trace, alerts, regVars, dkVars, twin>>

\* new Model(fields): the mongoose schemas of communications and container
\* documents add time, default Date.now, when the document is constructed.
WithSchemaDefaults(fields, now) == fields @@ [ time |-> now ]

\* What the middleware reads when the request arrives and keeps in its closure.
CaptureComms(b, microservice, req, res) ==
    [ microservice |-> microservice,
      endpoint |-> req.originalUrl,
      request |-> req.method,
      correlatingid |-> res.header ]

\* newComms (the document store) and endpoint/request/correlatingId (the relational
\* store) are declared inside the middleware function: one closure per request.
ClosureShared(closures, r) ==
    closures[CHOOSE q \in DOMAIN closures :
               /\ http[q].phase # "none"
               /\ \A q2 \in DOMAIN closures : http[q2].phase # "none" => q2 <= q]

ClosureOf(closures, r) == closures[r]

MiddlewareCallsNoNext == << Call("res.on", "finish") >>

MiddlewareCallsEarlyWrite ==
    << Call("res.on", "finish"),
       Call("write", [ op |-> "save", table |-> "communications", cb |-> "log",
                       doc |-> [ responsestatus |-> Undefined,
                                 responsemessage |-> Undefined ] ]),
       Call("next", <<>>) >>

\* The calls the middleware function makes before it returns.
MiddlewareCalls == << Call("res.on", "finish"), Call("next", <<>>) >>

CommsWriteLateHeader(b, nc, res, now) ==
    IF b = "pg"
    THEN [ op |-> "insertCommunication", table |-> "communications", cb |-> "throw",
           values |-> << nc.microservice, nc.endpoint, nc.request,
                         res.statusCode, res.statusMessage, res.header >> ]
    ELSE [ op |-> "save", table |-> "communications", cb |-> "log",
           doc |-> WithSchemaDefaults(
                     [ microservice |-> nc.microservice,
                       endpoint |-> nc.endpoint,
                       request |-> nc.request,
                       correlatingid |-> res.header,
                       responsestatus |-> res.statusCode,
                       responsemessage |-> res.statusMessage ], now) ]

\* The record the 'finish' listener hands to the store.
CommsWrite(b, nc, res, now) ==
    IF b = "pg"
    THEN [ op |-> "insertCommunication", table |-> "communications", cb |-> "throw",
           values |-> << nc.microservice, nc.endpoint, nc.request,
                         res.statusCode, res.statusMessage, nc.correlatingid >> ]
    ELSE [ op |-> "save", table |-> "communications", cb |-> "log",
           doc |-> WithSchemaDefaults(
                     [ microservice |-> nc.microservice,
                       endpoint |-> nc.endpoint,
                       request |-> nc.request,
                       correlatingid |-> nc.correlatingid,
                       responsestatus |-> res.statusCode,
                       responsemessage |-> res.statusMessage ], now) ]

ShouldAlertAbove(statusCode) == statusCode > AlertStatus

\* if (res.statusCode >= 400)
ShouldAlert(statusCode) == statusCode >= AlertStatus

FinishCallsWriteFirst(b, nc, res, sl, em, now) ==
    LET args == << res.statusCode, res.statusMessage >>
        sends == (IF sl THEN << Call("sendSlack", args) >> ELSE <<>>)
                 \o (IF em THEN << Call("sendEmail", args) >> ELSE <<>>)
    IN  << Call("write", CommsWrite(b, nc, res, now)) >>
        \o (IF ShouldAlert(res.statusCode) THEN sends ELSE <<>>)

FinishCallsEmailIfNoSlack(b, nc, res, sl, em, now) ==
    LET args == << res.statusCode, res.statusMessage >>
        sends == IF sl THEN << Call("sendSlack", args) >>
                 ELSE IF em THEN << Call("sendEmail", args) >> ELSE <<>>
    IN  (IF ShouldAlert(res.statusCode) THEN sends ELSE <<>>)
        \o << Call("write", CommsWrite(b, nc, res, now)) >>

\* The calls the 'finish' listener makes, in program order: the alerts first, for
\* a status that calls for one and a channel that is configured, then the record.
FinishCalls(b, nc, res, sl, em, now) ==
    LET args == << res.statusCode, res.statusMessage >>
        sends == (IF sl THEN << Call("sendSlack", args) >> ELSE <<>>)
                 \o (IF em THEN << Call("sendEmail", args) >> ELSE <<>>)
    IN  (IF ShouldAlert(res.statusCode) THEN sends ELSE <<>>)
        \o << Call("write", CommsWrite(b, nc, res, now)) >>

\* The middleware function (req, res, next) runs for request r.
Middleware(r) ==
    /\ alive
    /\ mw
    /\ http[r].phase = "none"
    /\ r > 1 => http[r - 1].phase # "none"
    /\ \E inp \in ReqInputs :
         LET req == [ method |-> inp[1], originalUrl |-> inp[2] ]
             res == [ statusCode |-> 200, statusMessage |-> Undefined, header |-> inp[3] ]
         IN  /\ http' = [http EXCEPT ![r] = [ phase |-> "inflight", req |-> req, res |-> res ]]
             /\ newComms' = [newComms EXCEPT ![r] = CaptureComms(backend, Microservice, req, res)]
             /\ trace' = [trace EXCEPT ![r] = MiddlewareCalls]
    /\ UNCHANGED <<polls, envVars, dbVars, mw, alerts, regVars, dkVars, twin>>

\* A later middleware or the handler sets, changes or removes the x-correlation-id
\* response header of request r while it is in flight (once, in this model).
LateHeaders == { Undefined, "cid-late" }

SetHeader(r) ==
    /\ alive
    /\ http[r].phase = "inflight"
    /\ http[r].res.header = newComms[r].correlatingid
    /\ \E h \in LateHeaders :
         /\ h # http[r].res.header
         /\ http' = [http EXCEPT ![r].res.header = h]
    /\ UNCHANGED <<polls, envVars, dbVars, mw, newComms, trace, alerts, regVars, dkVars, twin>>

\* The handlers the continuation leads to answer request r with a status code; the
\* framework emits 'finish' once, and the listener registered by the middleware runs.
Finish(r) ==
    /\ alive
    /\ http[r].phase = "inflight"
    /\ CountCalls(trace[r], "next") > 0
    /\ \E code \in Statuses :
         LET res == [ http[r].res EXCEPT !.statusCode = code,
                                         !.statusMessage = StatusMessage(code) ]
             calls == IF CountCalls(trace[r], "res.on") > 0
                      THEN FinishCalls(backend, ClosureOf(newComms, r), res, slack, email, clock)
                      ELSE <<>>
         IN  /\ http' = [http EXCEPT ![r].phase = "finished", ![r].res = res]
             /\ trace' = [trace EXCEPT ![r] = @ \o << Call("finish", code) >> \o calls]
             /\ alerts' = alerts \cup
                  { [ channel |-> calls[i].call, args |-> calls[i].arg, req |-> r ] :
                      i \in { j \in 1..Len(calls) : calls[j].call \in {"sendSlack", "sendEmail"} } }
             /\ pending' = pending \o WritesOf(calls, Tag("request", r))
    /\ UNCHANGED <<polls, envVars, db, clock, mw, newComms, regVars, dkVars, twin>>

\* A send that alert.sendSlack / alert.sendEmail started fails later: the channel
\* logs it; nothing reaches the listener that made the call, which has returned.
AlertFails(channel) ==
    /\ alive
    /\ \E a \in alerts : a.channel = channel
    /\ logs' = logs \cup { LogEntry("logged", [ op |-> channel, table |-> "" ], "alert") }
    /\ UNCHANGED <<polls, backend, connState, alive, slack, email, dbVars, reqVars, regVars,
                   dkVars, twin>>

\* ------------------------------------------------------------ chronos.docker

\* si.dockerContainers() resolves to the running containers; the container at
\* index i of a list has its own id, platform and start time.
ContainerNames == { Microservice, "books" }

ContainerAt(name, i) ==
    [ name |-> name,
      id |-> "id-" \o ToString(i),
      platform |-> "platform-" \o ToString(i),
      startedAt |-> 100 * i ]

ContainerLists ==
    UNION { { [ i \in 1..n |-> ContainerAt(names[i], i) ] : names \in [ 1..n -> ContainerNames ] }
            : n \in 0..MaxContainers }

\* data[0] of si.dockerContainerStats(containerid)
StatsSamples ==
    { [ mem_usage |-> 11, mem_limit |-> 12, mem_percent |-> 13, cpu_percent |-> 14,
        netIO |-> [ rx |-> 15, wx |-> 16 ], pids |-> 17, restartCount |-> 18 ],
      [ mem_usage |-> 21, mem_limit |-> 22, mem_percent |-> 23, cpu_percent |-> 24,
        netIO |-> [ rx |-> 25, wx |-> 26 ], pids |-> 27, restartCount |-> 28 ] }

ScanNoBreak(data, microservice, i, found) ==
    LET hits == { j \in 1..Len(data) : data[j].name = microservice }
    IN  IF hits = {} THEN found
        ELSE LET j == CHOOSE k \in hits : \A k2 \in hits : k2 <= k
             IN  [ containerid |-> data[j].id, containername |-> data[j].name,
                   platform |-> data[j].platform, starttime |-> data[j].startedAt ]

ScanById(data, microservice, i, found) ==
    LET hits == { j \in 1..Len(data) : data[j].id = microservice }
    IN  IF hits = {} THEN found
        ELSE LET j == CHOOSE k \in hits : \A k2 \in hits : k <= k2
             IN  [ containerid |-> data[j].id, containername |-> data[j].name,
                   platform |-> data[j].platform, starttime |-> data[j].startedAt ]

\* for (_i = 0; _i < data.length; _i++) { if (dataObj.name === microservice)
\*   { containername, containerid, platform, starttime = ...; break; } }
\* from index i on, with the variables as they stand in found
RECURSIVE Scan(_, _, _, _)
Scan(data, microservice, i, found) ==
    IF i > Len(data) THEN found
    ELSE IF data[i].name = microservice
    THEN [ containerid |-> data[i].id, containername |-> data[i].name,
           platform |-> data[i].platform, starttime |-> data[i].startedAt ]
    ELSE Scan(data, microservice, i + 1, found)

HasContainerAlways(containerid) == TRUE

\* if (containerid !== '')
HasContainer(containerid) == containerid # ""

\* The record one tick hands to the store, built from the closure's variables.
ContainerWrite(b, microservice, id, st, now) ==
    IF b = "pg"
    THEN [ op |-> "insertContainer", table |-> "containerinfo", cb |-> "throw",
           values |-> << microservice, id.containername, id.containerid, id.platform,
                         id.starttime, st.memoryusage, st.memorylimit, st.memorypercent,
                         st.cpupercent, st.networkreceived, st.networksent,
                         st.processcount, st.restartcount >> ]
    ELSE [ op |-> "save", table |-> "containerinfo", cb |-> "log",
           doc |-> WithSchemaDefaults(
                     [ containerid |-> id.containerid,
                       containername |-> id.containername,
                       platform |-> id.platform,
                       starttime |-> id.starttime,
                       memoryusage |-> st.memoryusage,
                       memorylimit |-> st.memorylimit,
                       memorypercent |-> st.memorypercent,
                       cpupercent |-> st.cpupercent,
                       networkreceived |-> st.networkreceived,
                       networksent |-> st.networksent,
                       processcount |-> st.processcount,
                       restartcount |-> st.restartcount ], now) ]

AssignStatsTorn(sample) ==
    LET assigned == \E t \in DOMAIN ticks : ticks[t].calls # <<>>
    IN  [ memoryusage |-> sample.mem_usage,
          memorylimit |-> sample.mem_limit,
          memorypercent |-> sample.mem_percent,
          cpupercent |-> sample.cpu_percent,
          networkreceived |-> IF assigned THEN dk.stats.networkreceived ELSE sample.netIO.rx,
          networksent |-> IF assigned THEN dk.stats.networksent ELSE sample.netIO.wx,
          processcount |-> IF assigned THEN dk.stats.processcount ELSE sample.pids,
          restartcount |-> IF assigned THEN dk.stats.restartcount ELSE sample.restartCount ]

\* memoryusage = data[0].mem_usage; ... restartcount = data[0].restartCount;
AssignStats(sample) ==
    [ memoryusage |-> sample.mem_usage,
      memorylimit |-> sample.mem_limit,
      memorypercent |-> sample.mem_percent,
      cpupercent |-> sample.cpu_percent,
      networkreceived |-> sample.netIO.rx,
      networksent |-> sample.netIO.wx,
      processcount |-> sample.pids,
      restartcount |-> sample.restartCount ]

StatsThenCallsTwice(b, microservice, id, st, now) ==
    << Call("write", ContainerWrite(b, microservice, id, st, now)),
       Call("write", ContainerWrite(b, microservice, id, st, now)) >>

\* The calls the .then of si.dockerContainerStats makes once the variables are set.
StatsThenCalls(b, microservice, id, st, now) ==
    << Call("write", ContainerWrite(b, microservice, id, st, now)) >>

\* chronos.docker({ microservice, interval }): the relational controller first
\* issues CREATE TABLE IF NOT EXISTS containerInfo; both call si.dockerContainers().
DockerSetup(b) ==
    IF b = "pg"
    THEN << Call("setup", [ op |-> "create", table |-> "containerinfo", cb |-> "throw" ]) >>
    ELSE <<>>

Docker ==
    /\ alive
    /\ connState # "none"
    /\ dk.phase = "none"
    /\ dk' = [dk EXCEPT !.phase = "listing"]
    /\ pending' = pending \o WritesOf(DockerSetup(backend), NoTag)
    /\ UNCHANGED <<polls, envVars, db, clock, reqVars, regVars, ticks, twin>>

\* si.dockerContainers() settles. Resolved: the .then scans, then registers the
\* timer or throws. Rejected (listed = FALSE): the trailing catch gets the error.
\* Either way the catch rethrows: a rejection nobody handles, which the runtime
\* either only warns about or ends the process for (its version decides).
DockerContainersThen ==
    /\ alive
    /\ dk.phase = "listing"
    /\ \E data \in ContainerLists, listed \in BOOLEAN, fatal \in BOOLEAN :
         LET found == Scan(data, Microservice, 1, dk.id)
         IN  IF ~listed
             THEN /\ data = <<>>
                  /\ dk' = [dk EXCEPT !.phase = "failed", !.error = TRUE]
                  /\ alive' = ~fatal
             ELSE IF HasContainer(found.containerid)
             THEN /\ ~fatal
                  /\ dk' = [dk EXCEPT !.phase = "resolved", !.data = data,
                                      !.id = found, !.timer = TRUE]
                  /\ alive' = alive
             ELSE /\ dk' = [dk EXCEPT !.phase = "failed", !.data = data,
                                      !.id = found, !.error = TRUE]
                  /\ alive' = ~fatal
    /\ UNCHANGED <<polls, backend, connState, logs, slack, email, dbVars, reqVars, regVars, ticks, twin>>

\* The timer fires: si.dockerContainerStats(containerid) is called.
DockerTick ==
    /\ alive
    /\ dk.timer
    /\ Len(ticks) < MaxTicks
    /\ ticks' = Append(ticks, [ phase |-> "sampling", calls |-> <<>> ])
    /\ clock' = clock + 1
    /\ UNCHANGED <<polls, envVars, db, pending, reqVars, regVars, dk, twin>>

\* The .then of si.dockerContainerStats for tick t: the shared variables are
\* assigned from data[0] and the record is handed to the store, in one callback. A
\* rejected sample is rethrown by the trailing catch (an unhandled rejection).
DockerStatsThen(t) ==
    /\ alive
    /\ t \in DOMAIN ticks
    /\ ticks[t].phase = "sampling"
    /\ \E ok \in BOOLEAN, sample \in StatsSamples, fatal \in BOOLEAN :
         IF ok
         THEN LET st == AssignStats(sample)
                  calls == StatsThenCalls(backend, Microservice, dk.id, st, clock)
              IN  /\ ~fatal
                  /\ dk' = [dk EXCEPT !.stats = st]
                  /\ ticks' = [ticks EXCEPT ![t] = [ phase |-> "writing", calls |-> calls ]]
                  /\ pending' = pending \o WritesOf(calls, Tag("tick", t))
                  /\ alive' = alive
         ELSE /\ ticks' = [ticks EXCEPT ![t].phase = "sample failed"]
              /\ alive' = ~fatal
              /\ UNCHANGED <<dk, pending>>
    /\ UNCHANGED <<polls, backend, connState, logs, slack, email, db, clock, reqVars, regVars, twin>>

\* ---------------------------------------------- chronos.services, chronos.kafka

ServicesCallsInsertFirst(b, microservice, interval) ==
    IF b = "pg"
    THEN << Call("write", [ op |-> "insertService", table |-> "services", cb |-> "throw",
                            values |-> << microservice, interval >> ]),
            Call("setup", [ op |-> "create", table |-> "services", cb |-> "throw" ]) >>
    ELSE << Call("write", [ op |-> "saveService", table |-> "services", cb |-> "log",
                            doc |-> [ microservice |-> microservice,
                                      interval |-> interval ] ]) >>

\* The queries/saves one registration hands to the driver: the relational
\* controller issues CREATE TABLE IF NOT EXISTS services, then the INSERT ... ON
\* CONFLICT DO NOTHING; the document controller saves a new ServicesModel.
ServicesCalls(b, microservice, interval) ==
    IF b = "pg"
    THEN << Call("setup", [ op |-> "create", table |-> "services", cb |-> "throw" ]),
            Call("write", [ op |-> "insertService", table |-> "services", cb |-> "throw",
                            values |-> << microservice, interval >> ]) >>
    ELSE << Call("write", [ op |-> "saveService", table |-> "services", cb |-> "log",
                            doc |-> [ microservice |-> microservice,
                                      interval |-> interval ] ]) >>

\* chronos.services({ microservice, interval })
Services ==
    /\ alive
    /\ connState # "none"
    /\ Len(regs) < MaxRegs
    /\ \E name \in ServiceNames, interval \in Intervals :
         /\ regs' = Append(regs, [ name |-> name, interval |-> interval,
                                   by |-> "services", state |-> "issued" ])
         /\ pending' = pending \o
              WritesOf(ServicesCalls(backend, name, interval), Tag("registration", Len(regs) + 1))
    /\ UNCHANGED <<polls, envVars, db, clock, reqVars, timers, dkVars, twin>>

\* chronos.kafka(userConfig) after the registration: the relational controller
\* issues CREATE TABLE IF NOT EXISTS kafkametrics (its failure is logged).
KafkaSetup(b) ==
    IF b = "pg"
    THEN << Call("setup", [ op |-> "create", table |-> "kafkametrics", cb |-> "log" ]) >>
    ELSE <<>>

\* chronos.kafka(userConfig): registers "kafkametrics" as a service with the
\* configured interval, then registers the repeating timer.
Kafka ==
    /\ alive
    /\ connState # "none"
    /\ Len(regs) < MaxRegs
    /\ \E interval \in Intervals :
         /\ regs' = Append(regs, [ name |-> "kafkametrics", interval |-> interval,
                                   by |-> "kafka", state |-> "issued" ])
         /\ pending' = pending
              \o WritesOf(ServicesCalls(backend, "kafkametrics", interval),
                          Tag("registration", Len(regs) + 1))
              \o WritesOf(KafkaSetup(backend), NoTag)
    /\ timers' = [timers EXCEPT !.kafka = @ + 1]
    /\ UNCHANGED <<polls, envVars, db, clock, reqVars, dkVars, twin>>

\* -------------------------------------------------- chronos.health, batches

\* What collectHealthData() and kafkaFetch() resolve to: data points
\* { metric, value, category, time }, time in milliseconds.
DataPoint(metric, value, time) ==
    [ metric |-> metric, value |-> value, category |-> "Memory", time |-> time ]

Batches ==
    { <<>>,
      << DataPoint("activememory", 7, 1500) >>,
      << DataPoint("activememory", 8, 2250), DataPoint("totalmemory", 9, 2250) >> }

\* chronos.health({ microservice, interval }): the relational controller first
\* issues CREATE TABLE IF NOT EXISTS <microservice> (its failure is logged).
HealthSetup(b) ==
    IF b = "pg"
    THEN << Call("setup", [ op |-> "create", table |-> "health", cb |-> "log" ]) >>
    ELSE <<>>

\* What one tick of the health or the queue-metrics poller hands to the store:
\*   client.query(createQueryString(n, table), createQueryArray(data))  or
\*   Model.insertMany(data)
BatchWrite(b, table, data) ==
    IF b = "pg"
    THEN [ op |-> "insertBatch", table |-> table, cb |-> "log",
           query |-> createQueryString(Len(data)),
           params |-> createQueryArray(data) ]
    ELSE [ op |-> "insertMany", table |-> table, cb |-> "log", docs |-> data ]

\* ---- the health and the queue-metrics pollers

Pollers == {"health", "kafka"}

\* The collection/table a poller writes to: HealthModelFunc(microservice) or the
\* table named after the microservice; KafkaModel or kafkametrics.
PollTable(p) == IF p = "health" THEN "health" ELSE "kafkametrics"

\* chronos.health({ microservice, interval }): the relational controller issues the
\* CREATE TABLE; both register the repeating timer.
Health ==
    /\ alive
    /\ connState # "none"
    /\ timers.health = 0
    /\ timers' = [timers EXCEPT !.health = @ + 1]
    /\ pending' = pending \o WritesOf(HealthSetup(backend), NoTag)
    /\ UNCHANGED <<polls, envVars, db, clock, reqVars, regs, dkVars, twin>>

PollTimerStopsOnFailure(p) ==
    /\ timers[p] > 0
    /\ \A k \in DOMAIN polls :
         polls[k].poller = p => polls[k].phase \notin {"fetch failed", "write failed"}

PollTimerWaits(p) ==
    /\ timers[p] > 0
    /\ \A k \in DOMAIN polls :
         polls[k].poller = p => polls[k].phase \notin {"fetching", "writing"}

PollTimerNeedsRegistration(p) ==
    /\ timers[p] > 0
    /\ p = "kafka" =>
         \E k \in DOMAIN regs :
             regs[k].by = "kafka" /\ regs[k].state \in {"issued", "inserted", "no-op"}

\* setInterval(callback, interval): once registered the timer fires every interval,
\* whatever became of the earlier ticks; nothing clears it.
PollTimerRuns(p) == timers[p] > 0

\* The timer of poller p fires: collectHealthData() / kafkaFetch(userConfig) is
\* called.
PollTick(p) ==
    /\ alive
    /\ PollTimerRuns(p)
    /\ Len(polls) < MaxPolls
    /\ polls' = Append(polls, [ poller |-> p, phase |-> "fetching",
                                fired |-> clock + 1, data |-> <<>> ])
    /\ clock' = clock + 1
    /\ UNCHANGED <<envVars, db, pending, reqVars, regVars, dkVars, twin>>

\* What a fetch resolves to: n data points read at logical time at (750 ms apart).
Collected(n, at) ==
    [ i \in 1..n |->
        DataPoint(IF i = 1 THEN "activememory" ELSE "totalmemory", 6 + i, 750 * at) ]

\* an empty batch or a batch of two data points
BatchSizes == {0, 2}

\* The fetch of tick k settles. Resolved: the batch is handed to the store in one
\* insertMany / one multi-row INSERT. Rejected: the trailing .catch logs. The data
\* points carry the time at which the helper read them, between the tick and now.
PollFetchThen(k) ==
    /\ alive
    /\ k \in DOMAIN polls
    /\ polls[k].phase = "fetching"
    /\ \E ok \in BOOLEAN, n \in BatchSizes, at \in polls[k].fired..clock :
         IF ok
         THEN LET data == Collected(n, at)
                  w == BatchWrite(backend, PollTable(polls[k].poller), data)
              IN  /\ polls' = [polls EXCEPT ![k].phase = "writing", ![k].data = data]
                  /\ pending' = pending \o WritesOf(<< Call("write", w) >>, Tag("poll", k))
                  /\ logs' = logs
         ELSE /\ n = 0 /\ at = clock
              /\ polls' = [polls EXCEPT ![k].phase = "fetch failed"]
              /\ logs' = logs \cup { LogEntry("logged",
                                              [ op |-> "fetch",
                                                table |-> PollTable(polls[k].poller) ],
                                              "fetch") }
              /\ pending' = pending
    /\ UNCHANGED <<backend, connState, alive, slack, email, db, clock, reqVars, regVars,
                   dkVars, twin>>

\* ------------------------------------------- the two backends side by side

\* A backend executes statements one after the other until an error rethrown from a
\* callback ends its process.
RECURSIVE Run(_, _, _, _)
Run(b, state, calls, now) ==
    IF calls = <<>> \/ ~state.alive THEN state
    ELSE LET r == Exec(b, state.db, Head(calls).arg, now)
         IN  Run(b,
                 [ db |-> r.db,
                   alive |-> ~(r.outcome # "ok" /\ Rethrows(Head(calls).arg)) ],
                 Tail(calls), now)

\* Every component of the agent has been set up on a connected store:
\* chronos.communications, health, docker and kafka each called once; chronos.kafka
\* registers the service "kafkametrics" before it creates its table.
Started(b) ==
    Run(b, [ db |-> EmptyDb, alive |-> TRUE ],
        CommunicationsSetup(b) \o HealthSetup(b) \o DockerSetup(b)
          \o ServicesCalls(b, "kafkametrics", ExampleInterval) \o KafkaSetup(b), 0)

\* The two controllers side by side, driven by the same events: n counts the
\* events begun, open holds the requests that arrived and the timer ticks that
\* fired and have not yet handed anything to the driver, and each controller has
\* its store, its process and the statements its driver holds unanswered.
NewTwin ==
    [ n |-> 0,
      open |-> <<>>,
      mongo |-> Started("mongo") @@ [ pending |-> <<>> ],
      pg |-> Started("pg") @@ [ pending |-> <<>> ] ]

\* Controller b hands calls to its driver (a process that has ended hands nothing).
Handed(b, calls) ==
    IF twin[b].alive
    THEN [ twin[b] EXCEPT !.pending = @ \o WritesOf(calls, NoTag) ]
    ELSE twin[b]

\* Both controllers run the callback that closes open[i] and hand its calls over.
Fed(i, mongoCalls, pgCalls) ==
    [ twin EXCEPT !.open = RemoveAt(@, i),
                  !.mongo = Handed("mongo", mongoCalls),
                  !.pg = Handed("pg", pgCalls) ]

\* The middleware runs for a request that arrives: it reads the request, registers
\* the 'finish' listener and calls next().
TwinMiddleware ==
    /\ twin.n < MaxInputs
    /\ \E inp \in ReqInputs :
         twin' = [ twin EXCEPT !.n = @ + 1,
                               !.open = Append(@, [ kind |-> "request", inp |-> inp ]) ]
    /\ UNCHANGED <<polls, envVars, dbVars, reqVars, regVars, dkVars>>

TickKinds == {"health", "kafka", "container"}

\* A timer fires: the callback calls collectHealthData(), kafkaFetch() or
\* si.dockerContainerStats() and returns.
TwinTick(kind) ==
    /\ twin.n < MaxInputs
    /\ twin' = [ twin EXCEPT !.n = @ + 1,
                             !.open = Append(@, [ kind |-> kind, inp |-> <<>> ]) ]
    /\ UNCHANGED <<polls, envVars, dbVars, reqVars, regVars, dkVars>>

\* The store of controller b answers one statement its driver holds: in order for
\* node-postgres, in any order for mongoose; a callback that rethrows ends the
\* process.
TwinAnswer(b) ==
    /\ twin[b].alive
    /\ \E i \in 1..Len(twin[b].pending) :
         /\ b = "pg" => i = 1
         /\ LET w == twin[b].pending[i].w
                r == Exec(b, twin[b].db, w, twin.n)
                thrown == r.outcome # "ok" /\ Rethrows(w)
            IN  twin' = [ twin EXCEPT ![b] =
                            [ db |-> r.db,
                              alive |-> ~thrown,
                              pending |-> IF thrown THEN <<>>
                                          ELSE RemoveAt(twin[b].pending, i) ] ]
    /\ UNCHANGED <<polls, envVars, dbVars, reqVars, regVars, dkVars>>

\* a service registration: chronos.services hands its statements over and returns
FeedService ==
    /\ twin.n < MaxInputs
    /\ \E name \in ServiceNames, interval \in Intervals :
         twin' = [ twin EXCEPT !.n = @ + 1,
                               !.mongo = Handed("mongo", ServicesCalls("mongo", name, interval)),
                               !.pg = Handed("pg", ServicesCalls("pg", name, interval)) ]
    /\ UNCHANGED <<polls, envVars, dbVars, reqVars, regVars, dkVars>>

\* The calls of the 'finish' listener of a request that arrived as inp and was
\* answered with code, no notification channel configured.
CompletedRequest(b, inp, code, now) ==
    LET req == [ method |-> inp[1], originalUrl |-> inp[2] ]
        res == [ statusCode |-> code, statusMessage |-> StatusMessage(code),
                 header |-> inp[3] ]
    IN  FinishCalls(b, CaptureComms(b, Microservice, req, res), res, FALSE, FALSE, now)

\* the response of a request that arrived finishes: the 'finish' listener
FeedRequest ==
    \E i \in DOMAIN twin.open, code \in Statuses :
        /\ twin.open[i].kind = "request"
        /\ twin' = Fed(i, CompletedRequest("mongo", twin.open[i].inp, code, twin.n),
                          CompletedRequest("pg", twin.open[i].inp, code, twin.n))
        /\ UNCHANGED <<polls, envVars, dbVars, reqVars, regVars, dkVars>>

\* the fetch of a health tick resolves: its .then
FeedHealth ==
    \E i \in DOMAIN twin.open, data \in Batches :
        /\ twin.open[i].kind = "health"
        /\ twin' = Fed(i, << Call("write", BatchWrite("mongo", "health", data)) >>,
                          << Call("write", BatchWrite("pg", "health", data)) >>)
        /\ UNCHANGED <<polls, envVars, dbVars, reqVars, regVars, dkVars>>

\* the fetch of a queue-metrics tick resolves: its .then
FeedKafka ==
    \E i \in DOMAIN twin.open, data \in Batches :
        /\ twin.open[i].kind = "kafka"
        /\ twin' = Fed(i, << Call("write", BatchWrite("mongo", "kafkametrics", data)) >>,
                          << Call("write", BatchWrite("pg", "kafkametrics", data)) >>)
        /\ UNCHANGED <<polls, envVars, dbVars, reqVars, regVars, dkVars>>

\* The calls of one tick's .then for the container resolved from a one-container
\* list.
ContainerSample(b, sample, now) ==
    StatsThenCalls(b, Microservice,
                   Scan(<< ContainerAt(Microservice, 1) >>, Microservice, 1, NewDocker.id),
                   AssignStats(sample), now)

\* the sample of a container tick resolves: its .then
FeedContainer ==
    \E i \in DOMAIN twin.open, sample \in StatsSamples :
        /\ twin.open[i].kind = "container"
        /\ twin' = Fed(i, ContainerSample("mongo", sample, twin.n),
                          ContainerSample("pg", sample, twin.n))
        /\ UNCHANGED <<polls, envVars, dbVars, reqVars, regVars, dkVars>>

\* ---------------------------------------------------------- specifications

\* The agent has been loaded with one of the two controllers and a notification
\* configuration; nothing has been called yet.
Init ==
    /\ backend \in Backends
    /\ connState = "none"
    /\ alive = TRUE
    /\ logs = {}
    /\ slack \in BOOLEAN
    /\ email \in BOOLEAN
    /\ db = EmptyDb
    /\ pending = <<>>
    /\ clock = 0
    /\ mw = FALSE
    /\ http = [ r \in 1..MaxReq |-> [ phase |-> "none" ] ]
    /\ newComms = [ r \in 1..MaxReq |-> Undefined ]
    /\ trace = [ r \in 1..MaxReq |-> <<>> ]
    /\ alerts = {}
    /\ regs = <<>>
    /\ timers = [ health |-> 0, kafka |-> 0 ]
    /\ dk = NewDocker
    /\ ticks = <<>>
    /\ polls = <<>>
    /\ twin = NewTwin

\* request tracing
NextTrace == Connect \/ ConnectThen \/ Communications \/ DbComplete
               \/ (\E r \in 1..MaxReq : Middleware(r))
               \/ (\E r \in 1..MaxReq : Finish(r))

SpecTrace == Init /\ [][NextTrace]_vars

\* the container poller
NextDocker == Connect \/ ConnectThen \/ Docker \/ DockerContainersThen \/ DockerTick \/ DbComplete
                \/ (\E t \in 1..MaxTicks : DockerStatsThen(t))

SpecDocker == Init /\ [][NextDocker]_vars

\* service registration
NextReg == Connect \/ ConnectThen \/ Services \/ Kafka \/ DbComplete

SpecReg == Init /\ [][NextReg]_vars

\* both backends, the same inputs
NextEquiv == TwinMiddleware \/ (\E kind \in TickKinds : TwinTick(kind))
               \/ FeedService \/ FeedRequest \/ FeedHealth \/ FeedKafka \/ FeedContainer
               \/ (\E b \in Backends : TwinAnswer(b))

InitEquiv ==
    /\ Init
    /\ backend = "mongo" /\ ~slack /\ ~email

SpecEquiv == InitEquiv /\ [][NextEquiv]_vars

\* the health and the queue-metrics pollers, each started once, no notification
\* channel configured
KafkaOnce == timers.kafka = 0 /\ Kafka

NextPoll == Connect \/ ConnectThen \/ Health \/ KafkaOnce \/ DbComplete
              \/ (\E p \in Pollers : PollTick(p))
              \/ (\E k \in 1..MaxPolls : PollFetchThen(k))

InitPoll ==
    /\ Init
    /\ ~slack /\ ~email

SpecPoll == InitPoll /\ [][NextPoll]_vars

\* the relational controller, one component of the agent started per run, on a
\* fresh database or on the database an earlier run has left
TraceIdle == ~mw /\ \A r \in 1..MaxReq : http[r].phase = "none"
DockerIdle == dk.phase = "none" /\ ticks = <<>>
PollIdle == timers.health = 0 /\ timers.kafka = 0 /\ polls = <<>> /\ regs = <<>>

SchemaTrace == DockerIdle /\ PollIdle /\ NextTrace
SchemaDocker == TraceIdle /\ PollIdle /\ NextDocker
SchemaPoll == TraceIdle /\ DockerIdle /\ NextPoll

NextSchema == SchemaTrace \/ SchemaDocker \/ SchemaPoll

\* What an earlier run on the relational store left behind: every table created,
\* a registration, a request, a health batch, a queue-metrics batch and a container
\* sample stored.
PriorDb ==
    Run("pg", Started("pg"),
        ServicesCalls("pg", Microservice, ExampleInterval)
          \o CompletedRequest("pg", <<"GET", "/customers", Undefined>>, 200, 0)
          \o << Call("write", BatchWrite("pg", "health", Collected(2, 0))),
                Call("write", BatchWrite("pg", "kafkametrics", Collected(2, 0))) >>
          \o ContainerSample("pg", CHOOSE sample \in StatsSamples : TRUE, 0),
        0).db

\* A later startup happens at a later time than any tick of a first run.
LaterTime == MaxTicks + MaxPolls + 1

InitSchema ==
    /\ backend = "pg"
    /\ connState = "none"
    /\ alive = TRUE
    /\ logs = {}
    /\ slack = FALSE
    /\ email = FALSE
    /\ \/ db = EmptyDb /\ clock = 0
       \/ db = PriorDb /\ clock = LaterTime
    /\ pending = <<>>
    /\ mw = FALSE
    /\ http = [ r \in 1..MaxReq |-> [ phase |-> "none" ] ]
    /\ newComms = [ r \in 1..MaxReq |-> Undefined ]
    /\ trace = [ r \in 1..MaxReq |-> <<>> ]
    /\ alerts = {}
    /\ regs = <<>>
    /\ timers = [ health |-> 0, kafka |-> 0 ]
    /\ dk = NewDocker
    /\ ticks = <<>>
    /\ polls = <<>>
    /\ twin = NewTwin

SpecSchema == InitSchema /\ [][NextSchema]_vars

\* request tracing with both notification channels configured and sends that fail
Channels == {"sendSlack", "sendEmail"}

NextAlert == NextTrace \/ (\E channel \in Channels : AlertFails(channel))

InitAlert ==
    /\ Init
    /\ slack /\ email

SpecAlert == InitAlert /\ [][NextAlert]_vars

\* request tracing with the correlation header of the first requests changing under
\* way, no notification channel configured
NextCorr == NextTrace \/ (\E r \in 1..MaxLate : SetHeader(r))

InitCorr ==
    /\ Init
    /\ ~slack /\ ~email

SpecCorr == InitCorr /\ [][NextCorr]_vars

\* ------------------------------------------------------------------ claims
Arrived(r) == http[r].phase # "none"
Finished(r) == http[r].phase = "finished"

\* The store writes issued for request r, in order.
CommWrites(r) == SelectSeq(trace[r], LAMBDA c : c.call = "write")

\* What a communications write carries, whichever controller built it.
WrittenComm(w) ==
    IF w.op = "insertCommunication"
    THEN [ endpoint |-> w.values[2], method |-> w.values[3],
           statusCode |-> w.values[4], statusMessage |-> w.values[5] ]
    ELSE [ endpoint |-> w.doc.endpoint, method |-> w.doc.request,
           statusCode |-> w.doc.responsestatus, statusMessage |-> w.doc.responsemessage ]

\* C1: every request whose response reached 'finish' has exactly one
\* CommunicationRecord write issued for it, carrying that request's own method and
\* originalUrl and that response's final statusCode and statusMessage, however the
\* in-flight requests interleave, in both backends.
C1_OneRecordPerCompletedRequest ==
    \A r \in 1..MaxReq :
        Finished(r) =>
            /\ Len(CommWrites(r)) = 1
            /\ WrittenComm(CommWrites(r)[1].arg) =
                 [ endpoint |-> http[r].req.originalUrl,
                   method |-> http[r].req.method,
                   statusCode |-> http[r].res.statusCode,
                   statusMessage |-> http[r].res.statusMessage ]

\* Two requests were in flight together (the second finished first) and both
\* records reached the relational store.
C1_Witness ==
    /\ backend = "pg"
    /\ Finished(1) /\ Finished(2)
    /\ Len(db.communications) = 2
    /\ http[1].req.originalUrl = "/customers"
    /\ http[1].res.statusCode = 500
    /\ db.communications[1].endpoint = "/orders"
    /\ db.communications[1].responsestatus = 200
    /\ db.communications[2].endpoint = "/customers"
    /\ db.communications[2].responsestatus = 500

Configured(channel) == IF channel = "sendSlack" THEN slack ELSE email

Dispatches(channel) ==
    { a \in alerts : a.channel = channel }

\* C2: an alert is dispatched for a completed request iff its statusCode >= 400 and
\* the channel was configured; per configured channel the number of dispatches is
\* the number of completed requests with status >= 400, and none is ever
\* dispatched for a status below 400.
C2_AlertIffFailureAndConfigured ==
    \A channel \in {"sendSlack", "sendEmail"} :
        /\ \A r \in 1..MaxReq :
             CountCalls(trace[r], channel) =
                 (IF Finished(r) /\ http[r].res.statusCode >= 400 /\ Configured(channel)
                  THEN 1 ELSE 0)
        /\ Cardinality(Dispatches(channel)) =
             (IF Configured(channel)
              THEN Cardinality({ r \in 1..MaxReq : Finished(r) /\ http[r].res.statusCode >= 400 })
              ELSE 0)
        /\ \A a \in Dispatches(channel) :
             a.args = << http[a.req].res.statusCode, http[a.req].res.statusMessage >>

\* Statuses 200 and 400 with both channels configured: two writes, one dispatch
\* per channel, for the 400.
C2_Witness ==
    /\ slack /\ email
    /\ Finished(1) /\ Finished(2)
    /\ http[1].res.statusCode = 200
    /\ http[2].res.statusCode = 400
    /\ Cardinality(Dispatches("sendSlack")) = 1
    /\ Cardinality(Dispatches("sendEmail")) = 1
    /\ Len(CommWrites(1)) = 1 /\ Len(CommWrites(2)) = 1

IndexOf(calls, c) == CHOOSE i \in 1..Len(calls) : calls[i].call = c

\* C3: each invocation of the middleware calls next() exactly once, within the
\* invocation: before the 'finish' listener runs and before any write or alert is
\* issued for the request.
C3_NextOnceBeforePersistence ==
    \A r \in 1..MaxReq :
        Arrived(r) =>
            /\ CountCalls(trace[r], "next") = 1
            /\ \A i \in 1..Len(trace[r]) :
                 trace[r][i].call \in {"finish", "write", "sendSlack", "sendEmail"}
                     => IndexOf(trace[r], "next") < i

\* A failed request completed: next() came first, then the alert and the write.
C3_Witness ==
    /\ Finished(1)
    /\ CountCalls(trace[1], "sendSlack") = 1
    /\ CountCalls(trace[1], "write") = 1
    /\ CountCalls(trace[1], "next") = 1

\* C4 (as claimed): no failure of the ingestion pipeline ends the host process, so
\* every later request still has its continuation run.
C4_HostSurvivesEveryFailure == alive

\* ---- the container poller

\* The indexes of the running containers that carry the configured name.
Matches(data) == { i \in 1..Len(data) : data[i].name = Microservice }

ResolutionRan == dk.phase \in {"resolved", "failed"}

\* The container inserts/saves the driver still holds.
ContainerWritesPending ==
    { i \in 1..Len(pending) :
        pending[i].w.table = "containerinfo" /\ pending[i].w.op # "create" }

\* C6: started for a name no running container has, the poller fails with the
\* resolution error, registers no timer and writes no ContainerRecord; and in every
\* state before resolution has succeeded no tick has fired and no ContainerRecord
\* has been issued or stored.
C6_NoMatchNoTimerNoRecord ==
    /\ (ResolutionRan /\ Matches(dk.data) = {}) =>
           /\ dk.phase = "failed"
           /\ dk.error
           /\ ~dk.timer
    /\ dk.phase # "resolved" =>
           /\ ~dk.timer
           /\ ticks = <<>>
           /\ db.containerinfo = <<>>
           /\ ContainerWritesPending = {}

\* Containers are running, none with the configured name: resolution has failed
\* and the process runs on without a timer.
C6_Witness ==
    /\ dk.phase = "failed"
    /\ Len(dk.data) = 2
    /\ Matches(dk.data) = {}
    /\ dk.error
    /\ alive

\* C7 (as claimed): with zero containers of the configured name, or with more than
\* one, the sampling timer is not started.
C7_NoSamplingUnlessUnique ==
    (ResolutionRan /\ Cardinality(Matches(dk.data)) # 1) => ~dk.timer

\* C7 (amended): the timer is started iff resolution found at least one container
\* of the configured name; with none it is not started, with several it is started
\* for exactly one of them.
C7_SamplingIffSomeMatch ==
    /\ ~ResolutionRan => ~dk.timer
    /\ ResolutionRan =>
         /\ dk.timer <=> Matches(dk.data) # {}
         /\ Matches(dk.data) = {} => dk.id.containerid = ""
         /\ Matches(dk.data) # {} =>
              Cardinality({ i \in Matches(dk.data) : dk.data[i].id = dk.id.containerid }) = 1

\* Two running containers share the configured name and the timer runs.
C7_Witness ==
    /\ dk.phase = "resolved"
    /\ Cardinality(Matches(dk.data)) = 2
    /\ dk.timer
    /\ Len(ticks) > 0

\* The identity a container write carries, whichever controller built it.
WrittenIdentity(w) ==
    IF w.op = "insertContainer"
    THEN [ containerid |-> w.values[3], containername |-> w.values[2],
           platform |-> w.values[4], starttime |-> w.values[5] ]
    ELSE [ containerid |-> w.doc.containerid, containername |-> w.doc.containername,
           platform |-> w.doc.platform, starttime |-> w.doc.starttime ]

FirstMatch(data) == CHOOSE i \in Matches(data) : \A j \in Matches(data) : i <= j

\* C8: the resolved identity (id, name, platform, start time) is that of the
\* lowest-index container whose name equals the configured name, whatever follows
\* it in the list, and every tick's record carries that identity.
C8_FirstMatchResolved ==
    dk.phase = "resolved" =>
        LET c == dk.data[FirstMatch(dk.data)]
            identity == [ containerid |-> c.id, containername |-> c.name,
                          platform |-> c.platform, starttime |-> c.startedAt ]
        IN  /\ Matches(dk.data) # {}
            /\ dk.id = identity
            /\ \A t \in DOMAIN ticks : \A i \in 1..Len(ticks[t].calls) :
                 ticks[t].calls[i].call = "write" =>
                     WrittenIdentity(ticks[t].calls[i].arg) = identity

\* The name is carried by both containers of the list; two ticks have written, both
\* for the first.
C8_Witness ==
    /\ dk.phase = "resolved"
    /\ Matches(dk.data) = {1, 2}
    /\ Len(ticks) = 2
    /\ \A t \in 1..2 :
         /\ CountCalls(ticks[t].calls, "write") = 1
         /\ WrittenIdentity(ticks[t].calls[1].arg).containerid = "id-1"

Sampled(t) == ticks[t].phase \in {"writing", "stored", "write failed"}

\* C9: once a container is resolved, a tick whose sample succeeded has issued
\* exactly one ContainerRecord write and any other tick none, and the records
\* stored are exactly those of the ticks whose sample and write both succeeded.
C9_OneRecordPerTick ==
    /\ ticks # <<>> => dk.phase = "resolved"
    /\ \A t \in DOMAIN ticks :
         CountCalls(ticks[t].calls, "write") = (IF Sampled(t) THEN 1 ELSE 0)
    /\ Len(db.containerinfo) =
         Cardinality({ t \in DOMAIN ticks : ticks[t].phase = "stored" })
    /\ Cardinality(ContainerWritesPending) <=
         Cardinality({ t \in DOMAIN ticks : ticks[t].phase = "writing" })

\* Two ticks, two successful samples, two successful writes: two records.
C9_Witness ==
    /\ Len(ticks) = 2
    /\ \A t \in 1..2 : ticks[t].phase = "stored"
    /\ Len(db.containerinfo) = 2

\* ---- service registration

RegsOf(name) == { k \in DOMAIN regs : regs[k].name = name }
ReachedStore(name) ==
    { k \in RegsOf(name) : regs[k].state \in {"inserted", "no-op", "duplicate"} }
ServiceRows(name) == { i \in 1..Len(db.services) : db.services[i].microservice = name }

\* The first registration called for a name.
FirstReg(name) == CHOOSE k \in RegsOf(name) : \A k2 \in RegsOf(name) : k <= k2

\* The insert/save of registration k failed and its callback rethrew the error: an
\* uncaught exception in the host (the relational callbacks; the document
\* controller's .catch logs).
RaisedToCaller(k) ==
    /\ backend = "pg"
    /\ regs[k].state \in {"transport", "rejected"}
    /\ ~alive

\* C5 (as claimed): registration is idempotent. After any number of registrations
\* of one name, from chronos.services or chronos.kafka, the store holds at most one
\* Service record for the name, exactly one once a registration has reached the
\* store; the record keeps the interval of the first registration; and no
\* registration after the first raises an error visible to the caller.
C5_RegistrationIdempotent ==
    \A name \in ServiceNames :
        /\ Cardinality(ServiceRows(name)) <= 1
        /\ ReachedStore(name) # {} => Cardinality(ServiceRows(name)) = 1
        /\ \A i \in ServiceRows(name) :
             db.services[i].interval = regs[FirstReg(name)].interval
        /\ \A k \in RegsOf(name) : k # FirstReg(name) => ~RaisedToCaller(k)

\* ---- backend equivalence

\* Stored rows in the terms of the data model, whichever backend holds them; a
\* timestamp is in microseconds, and the empty set where the row has none.
NoCorrelation == "none"

NormService(b, row) ==
    [ name |-> row.microservice, samplingIntervalMs |-> row.interval ]

NormCommunication(b, row) ==
    [ microservice |-> row.microservice,
      endpoint |-> row.endpoint,
      method |-> row.request,
      correlationId |-> IF row.correlatingid \in {Null, Undefined}
                        THEN NoCorrelation ELSE row.correlatingid,
      statusCode |-> row.responsestatus,
      statusMessage |-> row.responsemessage,
      timestamp |-> IF b = "pg" THEN {row.time} ELSE {row.time * 1000} ]

NormMetric(b, row) ==
    [ metric |-> row.metric, value |-> row.value, category |-> row.category,
      timestamp |-> IF b = "pg" THEN {row.time} ELSE {row.time * 1000} ]

NormContainer(b, row) ==
    IF b = "pg"
    THEN [ containerId |-> row.containerid, containerName |-> row.containername,
           platform |-> row.containerplatform, startTime |-> row.containerstarttime,
           memUsage |-> row.containermemusage, memLimit |-> row.containermemlimit,
           memPercent |-> row.containermempercent, cpuPercent |-> row.containercpupercent,
           networkReceived |-> row.networkreceived, networkSent |-> row.networksent,
           processCount |-> row.containerprocesscount,
           restartCount |-> row.containerrestartcount,
           timestamp |-> {} ]
    ELSE [ containerId |-> row.containerid, containerName |-> row.containername,
           platform |-> row.platform, startTime |-> row.starttime,
           memUsage |-> row.memoryusage, memLimit |-> row.memorylimit,
           memPercent |-> row.memorypercent, cpuPercent |-> row.cpupercent,
           networkReceived |-> row.networkreceived, networkSent |-> row.networksent,
           processCount |-> row.processcount, restartCount |-> row.restartcount,
           timestamp |-> {row.time * 1000} ]

Normal(b, d) ==
    [ services |-> [ i \in 1..Len(d.services) |-> NormService(b, d.services[i]) ],
      communications |->
          [ i \in 1..Len(d.communications) |-> NormCommunication(b, d.communications[i]) ],
      health |-> [ i \in 1..Len(d.health) |-> NormMetric(b, d.health[i]) ],
      kafkametrics |-> [ i \in 1..Len(d.kafkametrics) |-> NormMetric(b, d.kafkametrics[i]) ],
      containerinfo |->
          [ i \in 1..Len(d.containerinfo) |-> NormContainer(b, d.containerinfo[i]) ] ]

\* Every statement handed to either driver has been answered.
TwinSettled == twin.mongo.pending = <<>> /\ twin.pg.pending = <<>>

\* C10 (as claimed): fed the same sequence of registrations, completed requests,
\* health batches, container samples and broker metric batches, the two backends
\* hold, once every write has been answered, the same records with the same field
\* values in the same order.
C10_BackendsStoreTheSame ==
    TwinSettled => Normal("mongo", twin.mongo.db) = Normal("pg", twin.pg.db)

\* ---- the health and the queue-metrics pollers

PollsOf(p) == { k \in DOMAIN polls : polls[k].poller = p }

\* The writes of tick k the driver still holds.
PollWritesPending(k) ==
    { i \in 1..Len(pending) : pending[i].tag = Tag("poll", k) }

\* How many data points the ticks k.. of poller p have stored.
RECURSIVE StoredPoints(_, _)
StoredPoints(p, k) ==
    IF k > Len(polls) THEN 0
    ELSE (IF polls[k].poller = p /\ polls[k].phase = "stored"
          THEN Len(polls[k].data) ELSE 0) + StoredPoints(p, k + 1)

\* Data point dp is among the stored rows of poller p.
IsStored(p, dp) ==
    \E i \in 1..Len(Rows(db, PollTable(p))) :
        NormMetric(backend, Rows(db, PollTable(p))[i]) = NormMetric("mongo", dp)

\* The timer of p can fire whenever it is registered and the process lives (a tick
\* beyond the modelled number is not taken).
TimerCanFire(p) ==
    (alive /\ timers[p] > 0 /\ Len(polls) < MaxPolls) => ENABLED PollTick(p)

\* C11: in the health and the queue-metrics poller a tick whose fetch or whose batch
\* write failed stores nothing and leaves nothing queued or retried; the stored rows
\* are exactly the batches of the ticks whose fetch and write succeeded; and a
\* failed tick is only logged, it neither ends the process nor stops the timer, which
\* can still fire.
C11_FailedTickDroppedTimerGoesOn ==
    /\ \A e \in logs :
         e.op \in {"fetch", "insertBatch", "insertMany"} => e.kind = "logged"
    /\ \A k \in DOMAIN polls :
         polls[k].phase \in {"fetch failed", "write failed"} =>
             \E e \in logs : e.kind = "logged" /\ e.table = PollTable(polls[k].poller)
    /\ \A p \in Pollers :
         /\ Len(Rows(db, PollTable(p))) = StoredPoints(p, 1)
         /\ TimerCanFire(p)
    /\ \A k \in DOMAIN polls :
         /\ polls[k].phase \in {"fetch failed", "write failed", "stored", "fetching"}
                => PollWritesPending(k) = {}
         /\ Cardinality(PollWritesPending(k)) <= 1
         /\ polls[k].phase = "fetch failed" => polls[k].data = <<>>
         /\ polls[k].phase = "stored" =>
                \A i \in 1..Len(polls[k].data) :
                    IsStored(polls[k].poller, polls[k].data[i])

\* The health poller's first tick lost its batch to a failed write, its second
\* tick stored two data points in the relational store.
C11_Witness ==
    /\ backend = "pg"
    /\ Len(polls) = 2
    /\ polls[1].poller = "health" /\ polls[1].phase = "write failed"
    /\ Len(polls[1].data) = 2
    /\ polls[2].poller = "health" /\ polls[2].phase = "stored"
    /\ Len(db.health) = 2
    /\ alive

\* ---- failures in the container poller

\* C12 (as claimed): a failed sample call or a failed record write of the container
\* poller aborts only its own tick: the failure is logged, the process lives and
\* the timer stays registered.
C12_FailedTickAbortsOnlyItself ==
    \A t \in DOMAIN ticks :
        /\ ticks[t].phase \in {"sample failed", "write failed"} =>
               /\ alive
               /\ dk.timer
        /\ ticks[t].phase = "write failed" =>
               \E e \in logs : e.kind = "logged" /\ e.table = "containerinfo"

\* ---- a failed connect

\* C13 (as claimed): after a failed connect the agent runs on in a degraded state:
\* the connect failure is logged, components can still be started, and every
\* write that fails is logged and discarded, never ending the process.
C13_DegradedAfterFailedConnect ==
    connState = "down" =>
        /\ alive
        /\ \E e \in logs : e.op = "connect" /\ e.kind = "logged"
        /\ \A e \in logs : e.kind = "logged"
        /\ db = EmptyDb

\* ---- no partial record

\* The communications writes the driver still holds.
CommWritesPending ==
    { i \in 1..Len(pending) :
        pending[i].w.table = "communications" /\ pending[i].w.op # "create" }

\* C14: a CommunicationRecord write is issued only by the 'finish' listener, with
\* the response's status code and message set; while a request has not finished
\* (its handler may hang forever) no write was issued for it, none is queued, and
\* the store holds no more records than requests have finished.
C14_NoRecordBeforeFinish ==
    /\ \A r \in 1..MaxReq :
         /\ ~Finished(r) =>
                /\ CountCalls(trace[r], "write") = 0
                /\ \A i \in 1..Len(pending) : pending[i].tag # Tag("request", r)
         /\ Finished(r) =>
                \A i \in 1..Len(CommWrites(r)) :
                    /\ WrittenComm(CommWrites(r)[i].arg).statusCode \in Statuses
                    /\ WrittenComm(CommWrites(r)[i].arg).statusMessage # Undefined
    /\ Len(db.communications) + Cardinality(CommWritesPending)
           <= Cardinality({ r \in 1..MaxReq : Finished(r) })
    /\ \A i \in 1..Len(db.communications) :
         /\ db.communications[i].responsestatus \in Statuses
         /\ db.communications[i].responsemessage # Undefined

\* The first request's handler has not answered; the second request finished and
\* its record is stored: one record, none for the first.
C14_Witness ==
    /\ http[1].phase = "inflight"
    /\ CountCalls(trace[1], "next") = 1
    /\ Finished(2)
    /\ Len(db.communications) = 1
    /\ db.communications[1].endpoint = http[2].req.originalUrl
    /\ http[1].req.originalUrl # http[2].req.originalUrl
    /\ pending = <<>>

\* ---- the correlation id

\* The correlation id a communications write carries, whichever controller built it.
WrittenCorrelation(w) ==
    IF w.op = "insertCommunication" THEN w.values[6] ELSE w.doc.correlatingid

\* The x-correlation-id header differs now from what it was at arrival.
HeaderChanged(r) == http[r].res.header # newComms[r].correlatingid

\* C15: the correlation id of a request is the value of the x-correlation-id
\* response header when the middleware was invoked; the record written at 'finish'
\* carries that value, whatever was done to the header in between.
C15_CorrelationIdFromArrival ==
    \A r \in 1..MaxReq :
        Finished(r) =>
            \A i \in 1..Len(CommWrites(r)) :
                WrittenCorrelation(CommWrites(r)[i].arg) = newComms[r].correlatingid

\* A request arrived with the header set to "cid-1", the header was removed before
\* the response finished, and the stored record carries "cid-1".
C15_Witness ==
    /\ Finished(1)
    /\ newComms[1].correlatingid = "cid-1"
    /\ http[1].res.header = Undefined
    /\ HeaderChanged(1)
    /\ Len(db.communications) = 1
    /\ db.communications[1].correlatingid = "cid-1"

\* ---- alerts

\* Request r completed with a status that calls for an alert.
FailedResponse(r) == Finished(r) /\ http[r].res.statusCode >= AlertStatus

\* A send on the channel has failed (and was logged by the channel).
SendFailed(channel) ==
    [ kind |-> "logged", op |-> channel, table |-> "", cause |-> "alert" ] \in logs

\* C16: for every completed request with statusCode >= 400 and a configured
\* channel, the alert is dispatched and the record write is issued, the alert
\* first; a send that fails afterwards takes nothing back: the write has been
\* issued all the same.
C16_AlertThenWrite ==
    \A r \in 1..MaxReq :
        FailedResponse(r) =>
            /\ Len(CommWrites(r)) = 1
            /\ \A channel \in Channels :
                 Configured(channel) =>
                     /\ CountCalls(trace[r], channel) = 1
                     /\ IndexOf(trace[r], channel) < IndexOf(trace[r], "write")

\* A request completed with status 500, the slack send failed, and the record is
\* stored.
C16_Witness ==
    /\ slack
    /\ Finished(1)
    /\ http[1].res.statusCode = 500
    /\ SendFailed("sendSlack")
    /\ CountCalls(trace[1], "sendSlack") = 1
    /\ Len(db.communications) = 1
    /\ db.communications[1].responsestatus = 500

\* C17: with both channels configured and a status >= 400, each channel is
\* attempted: the email send is made whether or not a slack send has failed; and a
\* failed send is only logged: it never ends the process, so the request path does
\* not see it.
C17_ChannelsIndependent ==
    /\ \A r \in 1..MaxReq :
         (FailedResponse(r) /\ slack /\ email) =>
             \A channel \in Channels :
                 /\ CountCalls(trace[r], channel) = 1
                 /\ \E a \in Dispatches(channel) : a.req = r
    /\ \A e \in logs : e.cause = "alert" => e.kind = "logged"
    /\ ~alive => \E e \in logs : e.kind = "uncaught" /\ e.cause # "alert"

\* Both channels configured: the slack send of the first request failed, the
\* email was sent for it all the same, and the second request was failed and
\* alerted on both channels afterwards.
C17_Witness ==
    /\ slack /\ email
    /\ FailedResponse(1) /\ FailedResponse(2)
    /\ SendFailed("sendSlack")
    /\ ~SendFailed("sendEmail")
    /\ Cardinality(Dispatches("sendEmail")) = 2
    /\ Cardinality(Dispatches("sendSlack")) = 2
    /\ alive

\* ---- overlapping ticks

\* The batch writes of poller p the driver holds, unanswered.
InFlightWrites(p) ==
    { i \in 1..Len(pending) :
        pending[i].tag.kind = "poll" /\ polls[pending[i].tag.id].poller = p }

\* Poller p has a tick whose fetch or write has not finished.
Busy(p) == \E k \in PollsOf(p) : polls[k].phase \in {"fetching", "writing"}

\* C18: a poller's timer fires whether or not its earlier ticks have finished their
\* fetch and write: while p is busy its next tick is still enabled, and the writes
\* in flight are as many as the ticks that are in their write phase, nothing holds
\* one back for another.
C18_TicksNotSerialized ==
    \A p \in Pollers :
        /\ (Busy(p) /\ alive /\ Len(polls) < MaxPolls) => ENABLED PollTick(p)
        /\ alive =>
             Cardinality(InFlightWrites(p)) =
                 Cardinality({ k \in PollsOf(p) : polls[k].phase = "writing" })

\* Two batch writes of the health poller are in flight at once against the same
\* table of the relational store.
C18_Witness ==
    /\ backend = "pg"
    /\ alive
    /\ Cardinality(InFlightWrites("health")) = 2
    /\ \A i \in InFlightWrites("health") : pending[i].w.table = "health"

\* ---- timestamp order

\* The timestamps of the stored rows of poller p, in storage order.
StoredTimes(p) ==
    [ i \in 1..Len(Rows(db, PollTable(p))) |-> Rows(db, PollTable(p))[i].time ]

\* C19 (as claimed): within one poller's stored records the timestamps never
\* decrease in storage order, however ticks, fetch completions and write
\* completions interleave.
C19_TimestampsNonDecreasing ==
    \A p \in Pollers :
        \A i, j \in 1..Len(StoredTimes(p)) :
            i <= j => StoredTimes(p)[i] <= StoredTimes(p)[j]

\* ---- the relational schema

Tables == {"services", "communications", "health", "containerinfo", "kafkametrics"}

\* How often this run has issued CREATE TABLE IF NOT EXISTS for a table: once per
\* call of the component that owns it.
CreatesIssued(table) ==
    CASE table = "services" -> Len(regs)
      [] table = "communications" -> IF mw THEN 1 ELSE 0
      [] table = "health" -> timers.health
      [] table = "containerinfo" -> IF dk.phase # "none" THEN 1 ELSE 0
      [] table = "kafkametrics" -> timers.kafka

CreatesPending(table) ==
    { i \in 1..Len(pending) : pending[i].w.op = "create" /\ pending[i].w.table = table }

InsertsPending(table) ==
    { i \in 1..Len(pending) : pending[i].w.op # "create" /\ pending[i].w.table = table }

\* The run started on the database of an earlier run.
LaterStartup == clock >= LaterTime

IsPrefix(a, b) == Len(a) <= Len(b) /\ SubSeq(b, 1, Len(a)) = a

\* C20: in the relational backend, for each table, the CREATE TABLE IF NOT EXISTS
\* is issued on the connection before any INSERT into the table: an INSERT the
\* driver holds has the table's CREATE ahead of it in the queue or already
\* answered, and rows are only ever stored in a created table. Issued again on a
\* later startup, the CREATE leaves the rows of the earlier run as they are: they
\* stay the first rows of the table.
C20_CreateBeforeInsert ==
    \A table \in Tables :
        /\ alive =>
             \A i \in InsertsPending(table) :
                 \/ \E j \in CreatesPending(table) : j < i
                 \/ CreatesIssued(table) > Cardinality(CreatesPending(table))
        /\ Rows(db, table) # <<>> => table \in db.tables
        /\ LaterStartup => IsPrefix(Rows(PriorDb, table), Rows(db, table))
        /\ ~LaterStartup /\ CreatesIssued(table) = 0 => Rows(db, table) = <<>>

\* A later startup: the communications table was created again and a new request's
\* record was appended after the row of the earlier run.
C20_Witness ==
    /\ LaterStartup
    /\ mw
    /\ CreatesPending("communications") = {}
    /\ Len(PriorDb.communications) = 1
    /\ Len(db.communications) = 2
    /\ db.communications[1] = PriorDb.communications[1]
    /\ db.communications[2].endpoint = "/orders"

\* ---- the multi-row INSERT of a batch

\* The batch INSERTs the driver holds.
BatchInsertsPending ==
    { i \in 1..Len(pending) : pending[i].w.op = "insertBatch" }

\* sec is ms / 1000.
IsMsOver1000(sec, ms) ==
    /\ sec.milli \in 0..(MsPerSecond - 1)
    /\ sec.whole * MsPerSecond + sec.milli = ms

\* query has one row tuple per record of data, row i (from 0) naming $4i+1..$4i+4,
\* and params holds, at 4i+1..4i+4, record i's metric, value, category, time / 1000.
HasBatchShape(query, params, data) ==
    /\ Len(query) = Len(data)
    /\ Len(params) = 4 * Len(data)
    /\ \A i \in 0..(Len(data) - 1) :
         /\ query[i + 1] = << 4 * i + 1, 4 * i + 2, 4 * i + 3, 4 * i + 4 >>
         /\ params[4 * i + 1] = data[i + 1].metric
         /\ params[4 * i + 2] = data[i + 1].value
         /\ params[4 * i + 3] = data[i + 1].category
         /\ IsMsOver1000(params[4 * i + 4], data[i + 1].time)

\* C21: for a batch of n records the relational backend builds one INSERT with
\* exactly n row tuples, row i (from 0) using the placeholders $4i+1..$4i+4, and a
\* parameter array of exactly 4n values in which the entries 4i+1..4i+4 are record
\* i's metric, value, category and time / 1000, in input order; for n = 0 the
\* statement has no row tuple, so the tick's write fails and stores nothing.
C21_BatchInsertShape ==
    backend = "pg" =>
      /\ \A j \in BatchInsertsPending :
           LET w == pending[j].w
               data == polls[pending[j].tag.id].data
           IN  /\ Cardinality(PollWritesPending(pending[j].tag.id)) = 1
               /\ HasBatchShape(w.query, w.params, data)
      /\ \A data \in Batches :
           HasBatchShape(createQueryString(Len(data)), createQueryArray(data), data)
      /\ \A k \in DOMAIN polls :
           /\ (polls[k].data = <<>> /\ PollWritesPending(k) = {})
                  => polls[k].phase # "stored"
           /\ polls[k].phase = "stored" =>
                  \E j \in 1..Len(Rows(db, PollTable(polls[k].poller))) :
                      \A i \in 1..Len(polls[k].data) :
                          LET row == Rows(db, PollTable(polls[k].poller))[j + i - 1]
                          IN  /\ j + i - 1 <= Len(Rows(db, PollTable(polls[k].poller)))
                              /\ row.metric = polls[k].data[i].metric
                              /\ row.value = polls[k].data[i].value
                              /\ row.category = polls[k].data[i].category
                              /\ row.time = polls[k].data[i].time * MsPerSecond
      /\ \A p \in Pollers : Len(Rows(db, PollTable(p))) = StoredPoints(p, 1)

\* With the table created and the store reachable, a tick that collected nothing
\* had its write refused, and a two-record INSERT whose times are not whole seconds
\* is on its way.
C21_Witness ==
    /\ backend = "pg"
    /\ connState = "up"
    /\ \E k \in DOMAIN polls :
         /\ polls[k].data = <<>>
         /\ polls[k].phase = "write failed"
         /\ PollTable(polls[k].poller) \in db.tables
    /\ \E j \in BatchInsertsPending :
         /\ Len(pending[j].w.query) = 2
         /\ pending[j].w.params[4].milli # 0
         /\ pending[j].w.params[5] = "totalmemory"

\* ---- starting the queue-metrics poller

\* The registrations chronos.kafka has made.
KafkaRegs == { k \in DOMAIN regs : regs[k].by = "kafka" }

\* The registration's insert/save the driver still holds.
RegWritesPending(k) ==
    { i \in 1..Len(pending) : pending[i].tag = Tag("registration", k) }

\* A registration that did not succeed.
RegFailed(k) == regs[k].state \in {"transport", "rejected", "duplicate"}

\* The records a batch write carries, one per row tuple or document.
RecordsOf(w) ==
    IF w.op = "insertBatch"
    THEN [ i \in 1..Len(w.query) |->
             [ metric |-> w.params[w.query[i][1]],
               value |-> w.params[w.query[i][2]],
               category |-> w.params[w.query[i][3]],
               time |-> w.params[w.query[i][4]].whole * MsPerSecond
                          + w.params[w.query[i][4]].milli ] ]
    ELSE w.docs

\* C22: starting the queue-metrics poller issues the registration of the Service
\* "kafkametrics" with the configured interval and registers the repeating timer in
\* the same call, registration first: the registration's write is ahead of every
\* write of a tick. The timer is registered whether or not the registration
\* succeeds: after a failed registration it still fires while the process lives.
\* Each tick whose fetch returned hands the store one batch holding exactly one
\* record per metric returned by that fetch, in order.
C22_KafkaRegistersThenPolls ==
    /\ timers.kafka = Cardinality(KafkaRegs)
    /\ PollsOf("kafka") # {} => KafkaRegs # {}
    /\ \A k \in KafkaRegs :
         /\ regs[k].name = "kafkametrics"
         /\ regs[k].interval \in Intervals
         /\ (alive /\ regs[k].state = "issued") =>
                /\ Cardinality(RegWritesPending(k)) = 1
                /\ \A i \in RegWritesPending(k) :
                     /\ pending[i].w.op \in {"insertService", "saveService"}
                     /\ pending[i].w.op = "insertService" =>
                            pending[i].w.values = << "kafkametrics", regs[k].interval >>
                     /\ pending[i].w.op = "saveService" =>
                            pending[i].w.doc = [ microservice |-> "kafkametrics",
                                                 interval |-> regs[k].interval ]
                     /\ \A t \in PollsOf("kafka") : \A j \in PollWritesPending(t) : i < j
         /\ regs[k].state = "inserted" =>
                \E i \in ServiceRows("kafkametrics") :
                    db.services[i].interval = regs[k].interval
         /\ (alive /\ Len(polls) < MaxPolls) => ENABLED PollTick("kafka")
    /\ \A t \in PollsOf("kafka") :
         /\ Cardinality(PollWritesPending(t)) <= 1
         /\ (alive /\ polls[t].phase = "writing") => Cardinality(PollWritesPending(t)) = 1
         /\ polls[t].phase \in {"fetching", "fetch failed"} => PollWritesPending(t) = {}
         /\ \A j \in PollWritesPending(t) :
              /\ pending[j].w.table = "kafkametrics"
              /\ RecordsOf(pending[j].w) = polls[t].data

\* The registration failed, the process lives, and a later tick of the timer stored
\* its two metrics.
C22_Witness ==
    /\ alive
    /\ \E k \in KafkaRegs : RegFailed(k)
    /\ \E t \in PollsOf("kafka") :
         /\ polls[t].phase = "stored"
         /\ Len(polls[t].data) = 2
         /\ Len(Rows(db, "kafkametrics")) >= 2

\* ---- the container poller's shared variables

\* The statistics a ContainerRecord handed to the store carries, as the sample they
\* would have come from.
StatsOfWrite(w) ==
    IF w.op = "insertContainer"
    THEN [ mem_usage |-> w.values[6], mem_limit |-> w.values[7],
           mem_percent |-> w.values[8], cpu_percent |-> w.values[9],
           netIO |-> [ rx |-> w.values[10], wx |-> w.values[11] ],
           pids |-> w.values[12], restartCount |-> w.values[13] ]
    ELSE [ mem_usage |-> w.doc.memoryusage, mem_limit |-> w.doc.memorylimit,
           mem_percent |-> w.doc.memorypercent, cpu_percent |-> w.doc.cpupercent,
           netIO |-> [ rx |-> w.doc.networkreceived, wx |-> w.doc.networksent ],
           pids |-> w.doc.processcount, restartCount |-> w.doc.restartcount ]

\* The statistics of a stored ContainerRecord.
StatsOfRow(b, row) ==
    IF b = "pg"
    THEN [ mem_usage |-> row.containermemusage, mem_limit |-> row.containermemlimit,
           mem_percent |-> row.containermempercent, cpu_percent |-> row.containercpupercent,
           netIO |-> [ rx |-> row.networkreceived, wx |-> row.networksent ],
           pids |-> row.containerprocesscount, restartCount |-> row.containerrestartcount ]
    ELSE [ mem_usage |-> row.memoryusage, mem_limit |-> row.memorylimit,
           mem_percent |-> row.memorypercent, cpu_percent |-> row.cpupercent,
           netIO |-> [ rx |-> row.networkreceived, wx |-> row.networksent ],
           pids |-> row.processcount, restartCount |-> row.restartcount ]

\* The writes of tick t the driver holds.
TickWritesPending(t) ==
    { i \in 1..Len(pending) : pending[i].tag = Tag("tick", t) }

\* C23: the container poller keeps its statistic fields in variables shared by all
\* ticks, yet every ContainerRecord handed to the store, queued or stored, carries
\* the statistics of exactly one dockerContainerStats result (memory, CPU, network,
\* process and restart values of the same sample), however the overlapping ticks
\* interleave; after a tick's callback the shared variables hold one sample too.
C23_RecordFromOneSample ==
    /\ \A t \in DOMAIN ticks :
         \A c \in 1..Len(ticks[t].calls) :
             ticks[t].calls[c].call = "write" =>
                 StatsOfWrite(ticks[t].calls[c].arg) \in StatsSamples
    /\ \A t \in DOMAIN ticks :
         \A i \in TickWritesPending(t) : StatsOfWrite(pending[i].w) \in StatsSamples
    /\ \A i \in 1..Len(db.containerinfo) :
         StatsOfRow(backend, db.containerinfo[i]) \in StatsSamples
    /\ (\E t \in DOMAIN ticks : ticks[t].calls # <<>>) =>
         \E sample \in StatsSamples : dk.stats = AssignStats(sample)

\* Two ticks overlapped: the second tick's sample arrived first, and the two records
\* the driver holds, the second tick's ahead of the first's, are of different samples.
C23_Witness ==
    \E i \in TickWritesPending(2), j \in TickWritesPending(1) :
        /\ i < j
        /\ StatsOfWrite(pending[i].w) # StatsOfWrite(pending[j].w)
        /\ StatsOfWrite(pending[j].w).netIO.rx = dk.stats.networkreceived

=============================================================================
